---- MODULE Spec2Model ----
(***************************************************************************)
(* The dependency scheduler of comfy_execution/graph.py: DynamicPrompt,    *)
(* TopologicalSort and ExecutionList, as a state machine.                  *)
(*                                                                         *)
(* Python values are represented as follows.                               *)
(*   node id        a number of NodeIds (ids are opaque in the code)       *)
(*   None           None (a node id slot) or NoGroup (a class-type slot)   *)
(*   class_type     a string, written as the sequence of its character     *)
(*                  codes, so that Python's string order can be computed   *)
(*   input value    a record: kind "link" with node and socket, or kind    *)
(*                  "const"                                                *)
(*   dict           a function whose DOMAIN is the key set; pendingNodes,  *)
(*                  whose iteration order the code relies on, is the       *)
(*                  sequence of its keys in insertion order                *)
(***************************************************************************)
EXTENDS Integers, Sequences, FiniteSets, TLC

\* ------------------------------------------------------------------ bounds
\* The driver adds at most MaxTargets distinct target nodes.
MaxTargets == 2
\* The driver calls add_strong_link at most MaxLinks times.
MaxLinks == 2

NodeIds == {1, 2, 3}
\* The ids of the nodes an expansion adds, in the order it creates them.
EphemeralIds == {4, 5}
None == 0
NoGroup == <<>>
Sockets == {0, 1}

\* ---------------------------------------------------------- external data
\* Class-type names: "A", "AB" and "B" as character codes.
ClassA == <<65>>
ClassAB == <<65, 66>>
ClassB == <<66>>
Classes == {ClassA, ClassAB, ClassB}

\* nodes.NODE_CLASS_MAPPINGS: per class type, the OUTPUT_NODE attribute and
\* the input names whose INPUT_TYPES options hold "lazy": True.
NODE_CLASS_MAPPINGS ==
    [c \in Classes |->
        IF c = ClassA THEN [OUTPUT_NODE |-> FALSE, lazy |-> {"b"}]
        ELSE IF c = ClassAB THEN [OUTPUT_NODE |-> FALSE, lazy |-> {}]
        ELSE [OUTPUT_NODE |-> TRUE, lazy |-> {"b"}]]

\* comfy_execution.graph_utils.is_link: a [node_id, socket] pair.
is_link(value) == value.kind = "link"

Link(m, s) == [kind |-> "link", node |-> m, socket |-> s]
Const == [kind |-> "const", node |-> None, socket |-> 0]

\* The subgraph_nodes argument of add_node: None, or a set of node ids.
NoSubgraph == [given |-> FALSE, nodes |-> {}]
Subgraph(nodes) == [given |-> TRUE, nodes |-> nodes]

VARIABLES
    original_prompt,      \* DynamicPrompt.original_prompt
    ephemeral_prompt,     \* DynamicPrompt.ephemeral_prompt
    ephemeral_parents,    \* DynamicPrompt.ephemeral_parents
    ephemeral_display,    \* DynamicPrompt.ephemeral_display
    output_cache,         \* ExecutionList.output_cache: the node ids it holds
    pendingNodes,         \* TopologicalSort.pendingNodes, keys in insertion order
    blockCount,           \* TopologicalSort.blockCount
    blocking,             \* TopologicalSort.blocking: node -> node -> sockets set True
    staged_node_id,       \* ExecutionList.staged_node_id
    current_group_class,  \* ExecutionList._current_group_class
    last,                 \* the last call and what it returned or raised
    completed,            \* history: the node ids complete_node_execution popped
    targets,              \* history: the node ids the driver called add_node for
    made_strong,          \* history: the <<consumer, input>> links made strong whose
                          \* consumer and producer have not been completed since
    undisturbed,          \* history: no call changed the three dicts since the last pick
    link_calls            \* history: the number of add_strong_link calls of the driver

vars == <<original_prompt, ephemeral_prompt, ephemeral_parents, ephemeral_display, output_cache,
          pendingNodes, blockCount, blocking, staged_node_id,
          current_group_class, last, completed, targets, made_strong, undisturbed,
          link_calls>>

graphVars == <<original_prompt, ephemeral_prompt, ephemeral_parents, ephemeral_display,
               output_cache>>

dictVars == <<pendingNodes, blockCount, blocking>>

\* ------------------------------------------------------------- helpers
Range(s) == {s[i] : i \in DOMAIN s}
EmptyFn == [x \in {} |-> {}]
Put(f, k, v) == [x \in DOMAIN f \cup {k} |-> IF x = k THEN v ELSE f[x]]
Del(f, k) == [x \in DOMAIN f \ {k} |-> f[x]]
Without(s, k) == SelectSeq(s, LAMBDA x : x # k)
Front(s) == SubSeq(s, 1, Len(s) - 1)

\* ------------------------------------------------------- DynamicPrompt
get_node(node_id) ==
    IF node_id \in DOMAIN ephemeral_prompt THEN ephemeral_prompt[node_id]
    ELSE original_prompt[node_id]

has_node(node_id) == node_id \in DOMAIN original_prompt \/ node_id \in DOMAIN ephemeral_prompt

all_node_ids == DOMAIN original_prompt \cup DOMAIN ephemeral_prompt

class_of(node_id) == get_node(node_id).class_type

\* The inputs dict of a node: a sequence of [name, value] in key order.
inputs_of(node_id) == get_node(node_id).inputs

has_input(node_id, input_name) ==
    \E i \in DOMAIN inputs_of(node_id) : inputs_of(node_id)[i].name = input_name

input_value(node_id, input_name) ==
    LET ins == inputs_of(node_id)
    IN  ins[CHOOSE i \in DOMAIN ins : ins[i].name = input_name].value

follow_OneStep(map, node_id) ==
    IF node_id \in DOMAIN map THEN map[node_id] ELSE node_id

RECURSIVE follow(_, _)
follow(map, node_id) ==
    IF node_id \in DOMAIN map THEN follow(map, map[node_id]) ELSE node_id

get_real_node_id(node_id) == follow(ephemeral_parents, node_id)

get_display_node_id(node_id) == follow(ephemeral_display, node_id)

\* ------------------------------------------------------ get_input_info
\* TopologicalSort.get_input_info and the is_lazy test of add_node.
is_lazy(unique_id, input_name) ==
    input_name \in NODE_CLASS_MAPPINGS[class_of(unique_id)].lazy

is_output(node_id) == NODE_CLASS_MAPPINGS[class_of(node_id)].OUTPUT_NODE

\* ----------------------------------------------------- TopologicalSort
\* The three dicts as one value: p pendingNodes, bc blockCount, bl blocking,
\* and err, the exception that ended the call ("" when none did).
Sched == [p |-> pendingNodes, bc |-> blockCount, bl |-> blocking, err |-> ""]

is_cached(node_id) == FALSE

RECURSIVE add_node_walk(_, _, _, _, _)
RECURSIVE add_links(_, _)
RECURSIVE scan_inputs(_, _, _, _, _, _)
RECURSIVE scan_inputs_IgnoresSubgraph(_, _, _, _, _, _)

\* The input loop of add_node for unique_id, from input i on: the producers it
\* appends to node_ids and the links it appends to links.
scan_inputs_IgnoresSubgraph(unique_id, i, include_lazy, subgraph_nodes, node_ids, links) ==
    LET ins == inputs_of(unique_id)
    IN  IF i > Len(ins) THEN [node_ids |-> node_ids, links |-> links]
        ELSE LET value == ins[i].value
                 keep == /\ is_link(value)
                         /\ (include_lazy \/ ~is_lazy(unique_id, ins[i].name))
                         /\ ~is_cached(value.node)
             IN  IF keep
                 THEN scan_inputs_IgnoresSubgraph(unique_id, i + 1, include_lazy,
                                                  subgraph_nodes,
                                                  Append(node_ids, value.node),
                                                  Append(links, <<value.node, value.socket, unique_id>>))
                 ELSE scan_inputs_IgnoresSubgraph(unique_id, i + 1, include_lazy,
                                                  subgraph_nodes, node_ids, links)

scan_inputs(unique_id, i, include_lazy, subgraph_nodes, node_ids, links) ==
    LET ins == inputs_of(unique_id)
    IN  IF i > Len(ins) THEN [node_ids |-> node_ids, links |-> links]
        ELSE LET value == ins[i].value
                 keep == /\ is_link(value)
                         /\ ~(subgraph_nodes.given /\ value.node \notin subgraph_nodes.nodes)
                         /\ (include_lazy \/ ~is_lazy(unique_id, ins[i].name))
                         /\ ~is_cached(value.node)
             IN  IF keep
                 THEN scan_inputs(unique_id, i + 1, include_lazy, subgraph_nodes,
                                  Append(node_ids, value.node),
                                  Append(links, <<value.node, value.socket, unique_id>>))
                 ELSE scan_inputs(unique_id, i + 1, include_lazy, subgraph_nodes,
                                  node_ids, links)

add_strong_link_AlwaysCounts(S, from_node_id, from_socket, to_node_id) ==
    IF S.err # "" \/ is_cached(from_node_id) THEN S
    ELSE LET S1 == add_node_walk(S, <<from_node_id>>, <<>>, FALSE, NoSubgraph)
             sockets == IF to_node_id \in DOMAIN S1.bl[from_node_id]
                        THEN S1.bl[from_node_id][to_node_id] ELSE {}
         IN  IF S1.err # "" THEN S1
             ELSE IF to_node_id \notin DOMAIN S1.bc THEN [S1 EXCEPT !.err = "KeyError"]
             ELSE [S1 EXCEPT
                     !.bl = Put(S1.bl, from_node_id,
                                Put(S1.bl[from_node_id], to_node_id,
                                    sockets \cup {from_socket})),
                     !.bc = Put(S1.bc, to_node_id, S1.bc[to_node_id] + 1)]

add_strong_link(S, from_node_id, from_socket, to_node_id) ==
    IF S.err # "" \/ is_cached(from_node_id) THEN S
    ELSE LET S1 == add_node_walk(S, <<from_node_id>>, <<>>, FALSE, NoSubgraph)
         IN  IF S1.err # "" THEN S1
             ELSE IF to_node_id \notin DOMAIN S1.bl[from_node_id]
             THEN LET bl1 == Put(S1.bl, from_node_id,
                                 Put(S1.bl[from_node_id], to_node_id, {}))
                  IN  IF to_node_id \notin DOMAIN S1.bc
                      THEN [S1 EXCEPT !.bl = bl1, !.err = "KeyError"]
                      ELSE [S1 EXCEPT
                              !.bl = Put(bl1, from_node_id,
                                         Put(bl1[from_node_id], to_node_id, {from_socket})),
                              !.bc = Put(S1.bc, to_node_id, S1.bc[to_node_id] + 1)]
             ELSE [S1 EXCEPT
                     !.bl = Put(S1.bl, from_node_id,
                                Put(S1.bl[from_node_id], to_node_id,
                                    S1.bl[from_node_id][to_node_id] \cup {from_socket}))]

add_links(S, links) ==
    IF links = <<>> THEN S
    ELSE add_links(add_strong_link(S, links[1][1], links[1][2], links[1][3]), Tail(links))

\* The while loop of add_node, then its loop over links.
add_node_walk(S, node_ids, links, include_lazy, subgraph_nodes) ==
    IF node_ids = <<>> THEN add_links(S, links)
    ELSE LET unique_id == node_ids[Len(node_ids)]
             rest == Front(node_ids)
         IN  IF unique_id \in Range(S.p)
             THEN add_node_walk(S, rest, links, include_lazy, subgraph_nodes)
             ELSE LET S1 == [S EXCEPT !.p = Append(S.p, unique_id),
                                      !.bc = Put(S.bc, unique_id, 0),
                                      !.bl = Put(S.bl, unique_id, EmptyFn)]
                      sc == scan_inputs(unique_id, 1, include_lazy, subgraph_nodes,
                                        rest, links)
                  IN  IF ~has_node(unique_id) THEN [S1 EXCEPT !.err = "NodeNotFoundError"]
                      ELSE add_node_walk(S1, sc.node_ids, sc.links, include_lazy,
                                         subgraph_nodes)

add_node_AlwaysLazy(S, node_unique_id, include_lazy, subgraph_nodes) ==
    add_node_walk(S, <<node_unique_id>>, <<>>, TRUE, subgraph_nodes)

add_node(S, node_unique_id, include_lazy, subgraph_nodes) ==
    add_node_walk(S, <<node_unique_id>>, <<>>, include_lazy, subgraph_nodes)

make_input_strong_link_SwappedEnds(S, to_node_id, to_input) ==
    IF ~has_input(to_node_id, to_input) THEN [S EXCEPT !.err = "NodeInputError"]
    ELSE LET value == input_value(to_node_id, to_input)
         IN  IF ~is_link(value) THEN [S EXCEPT !.err = "NodeInputError"]
             ELSE add_strong_link(S, to_node_id, value.socket, value.node)

make_input_strong_link(S, to_node_id, to_input) ==
    IF ~has_input(to_node_id, to_input) THEN [S EXCEPT !.err = "NodeInputError"]
    ELSE LET value == input_value(to_node_id, to_input)
         IN  IF ~is_link(value) THEN [S EXCEPT !.err = "NodeInputError"]
             ELSE add_strong_link(S, value.node, value.socket, to_node_id)

get_ready_nodes(S) == SelectSeq(S.p, LAMBDA node_id : S.bc[node_id] = 0)

pop_node_NoRelease(S, unique_id) ==
    IF unique_id \notin Range(S.p) THEN [S EXCEPT !.err = "KeyError"]
    ELSE [S EXCEPT !.p = Without(S.p, unique_id), !.bl = Del(S.bl, unique_id)]

pop_node_PerSocket(S, unique_id) ==
    IF unique_id \notin Range(S.p) THEN [S EXCEPT !.err = "KeyError"]
    ELSE [S EXCEPT
            !.p = Without(S.p, unique_id),
            !.bc = [n \in DOMAIN S.bc |->
                      IF n \in DOMAIN S.bl[unique_id]
                      THEN S.bc[n] - Cardinality(S.bl[unique_id][n]) ELSE S.bc[n]],
            !.bl = Del(S.bl, unique_id)]

pop_node(S, unique_id) ==
    IF unique_id \notin Range(S.p) THEN [S EXCEPT !.err = "KeyError"]
    ELSE [S EXCEPT
            !.p = Without(S.p, unique_id),
            !.bc = [n \in DOMAIN S.bc |->
                      IF n \in DOMAIN S.bl[unique_id] THEN S.bc[n] - 1 ELSE S.bc[n]],
            !.bl = Del(S.bl, unique_id)]

is_empty(S) == Len(S.p) = 0

\* -------------------------------------------------------- ExecutionList
\* Python's order on str: by code point, a proper prefix first.
RECURSIVE StrLess(_, _)
StrLess(s, t) ==
    IF t = <<>> THEN FALSE
    ELSE IF s = <<>> THEN TRUE
    ELSE IF s[1] # t[1] THEN s[1] < t[1]
    ELSE StrLess(Tail(s), Tail(t))

\* counts[ctype] of _pick_largest_group.
group_count(node_list, ctype) ==
    Cardinality({i \in DOMAIN node_list : class_of(node_list[i]) = ctype})

\* Python's order on the (count, name) keys of max().
KeyLess(node_list, c, d) ==
    \/ group_count(node_list, c) < group_count(node_list, d)
    \/ /\ group_count(node_list, c) = group_count(node_list, d)
       /\ StrLess(c, d)

_pick_largest_group_FirstNode(node_list) == class_of(node_list[1])

_pick_largest_group_FirstSeen(node_list) ==
    LET ctypes == {class_of(node_list[i]) : i \in DOMAIN node_list}
        most == {c \in ctypes :
                    \A d \in ctypes : group_count(node_list, d) <= group_count(node_list, c)}
        first(c) == CHOOSE i \in DOMAIN node_list :
                        /\ class_of(node_list[i]) = c
                        /\ \A j \in 1..(i - 1) : class_of(node_list[j]) # c
    IN  CHOOSE c \in most : \A d \in most : first(c) <= first(d)

_pick_largest_group(node_list) ==
    LET ctypes == {class_of(node_list[i]) : i \in DOMAIN node_list}
    IN  CHOOSE c \in ctypes : \A d \in ctypes \ {c} : KeyLess(node_list, d, c)

_filter_by_group(node_list, group_cls) ==
    SelectSeq(node_list, LAMBDA nid : class_of(nid) = group_cls)

pick_group_AlwaysReselects(group, node_list) ==
    _pick_largest_group(node_list)

\* The group ux_friendly_pick_node leaves in _current_group_class (step 1).
pick_group(group, node_list) ==
    IF group = NoGroup \/ ~\E i \in DOMAIN node_list : class_of(node_list[i]) = group
    THEN _pick_largest_group(node_list)
    ELSE group

\* The three loops over candidates and the final candidates[0].
blocks_output(S, nid) == \E blocked \in DOMAIN S.bl[nid] : is_output(blocked)

blocks_output2(S, nid) ==
    \E blocked \in DOMAIN S.bl[nid] :
        \E blocked2 \in DOMAIN S.bl[blocked] : is_output(blocked2)

\* The first element of candidates that is in the set such.
first_such(candidates, such) ==
    candidates[CHOOSE i \in DOMAIN candidates :
                  candidates[i] \in such /\ \A j \in 1..(i - 1) : candidates[j] \notin such]

pick_in_group_NoSecondHop(S, candidates) ==
    IF \E i \in DOMAIN candidates : is_output(candidates[i])
    THEN first_such(candidates, {nid \in Range(candidates) : is_output(nid)})
    ELSE IF \E i \in DOMAIN candidates : blocks_output(S, candidates[i])
    THEN first_such(candidates, {nid \in Range(candidates) : blocks_output(S, nid)})
    ELSE candidates[1]

pick_in_group(S, candidates) ==
    IF \E i \in DOMAIN candidates : is_output(candidates[i])
    THEN first_such(candidates, {nid \in Range(candidates) : is_output(nid)})
    ELSE IF \E i \in DOMAIN candidates : blocks_output(S, candidates[i])
    THEN first_such(candidates, {nid \in Range(candidates) : blocks_output(S, nid)})
    ELSE IF \E i \in DOMAIN candidates : blocks_output2(S, candidates[i])
    THEN first_such(candidates, {nid \in Range(candidates) : blocks_output2(S, nid)})
    ELSE candidates[1]

ux_friendly_pick_node_FirstReady(S, group, node_list) ==
    [group |-> pick_group(group, node_list), node |-> node_list[1]]

\* ux_friendly_pick_node: the group it leaves and the node it returns.
ux_friendly_pick_node(S, group, node_list) ==
    LET g == pick_group(group, node_list)
    IN  [group |-> g, node |-> pick_in_group(S, _filter_by_group(node_list, g))]

\* blocked_by[to_node_id] as get_nodes_in_cycle first builds it.
blocked_by(S, to_node_id) ==
    {from_node_id \in DOMAIN S.bl :
        /\ to_node_id \in DOMAIN S.bl[from_node_id]
        /\ S.bl[from_node_id][to_node_id] # {}}

\* The while loop of get_nodes_in_cycle on the key set R of blocked_by.
RECURSIVE dissolve(_, _)
dissolve(S, R) ==
    LET to_remove == {node_id \in R : blocked_by(S, node_id) \cap R = {}}
    IN  IF to_remove = {} THEN R ELSE dissolve(S, R \ to_remove)

get_nodes_in_cycle(S) ==
    LET left == dissolve(S, Range(S.p))
    IN  SelectSeq(S.p, LAMBDA node_id : node_id \in left)

\* blocked_by[to_node_id][from_node_id] = True raises KeyError when to_node_id
\* is no key of blocked_by, that is, not pending.
cycle_key_error(S) ==
    \E from_node_id \in DOMAIN S.bl : \E to_node_id \in DOMAIN S.bl[from_node_id] :
        S.bl[from_node_id][to_node_id] # {} /\ to_node_id \notin Range(S.p)

blamed_node_Undisplayed(cycled_nodes) ==
    IF \E i \in DOMAIN cycled_nodes : get_display_node_id(cycled_nodes[i]) # cycled_nodes[i]
    THEN first_such(cycled_nodes,
                    {nid \in Range(cycled_nodes) : get_display_node_id(nid) # nid})
    ELSE cycled_nodes[1]

\* The blamed node of stage_node_execution.
blamed_node(cycled_nodes) ==
    IF \E i \in DOMAIN cycled_nodes : get_display_node_id(cycled_nodes[i]) # cycled_nodes[i]
    THEN get_display_node_id(
            first_such(cycled_nodes,
                       {nid \in Range(cycled_nodes) : get_display_node_id(nid) # nid}))
    ELSE cycled_nodes[1]

\* ----------------------------------------------------------------- Init
\* A prompt: every node has a class type, an optional input "a" (absent, or a
\* link to socket 0 of another node) and an input "b" (a constant, or a link to
\* socket 1 of another node), in this key order.
node_record(ctype, a, b) ==
    [class_type |-> ctype,
     inputs |-> (IF a = None THEN <<>> ELSE <<[name |-> "a", value |-> Link(a, 0)]>>)
                \o <<[name |-> "b", value |-> IF b = None THEN Const ELSE Link(b, 1)]>>]

link_count(w) ==
    Cardinality({n \in NodeIds : w.a[n] # None}) + Cardinality({n \in NodeIds : w.b[n] # None})

\* The wirings of at most k links, none from a node to itself.
WiringUpTo(k) ==
    {w \in [a : [NodeIds -> NodeIds \cup {None}], b : [NodeIds -> NodeIds \cup {None}]] :
        /\ \A n \in NodeIds : w.a[n] # n /\ w.b[n] # n
        /\ link_count(w) <= k}

PromptsOf(class_vectors, wirings) ==
    {[n \in NodeIds |-> node_record(ct[n], w.a[n], w.b[n])] :
        ct \in class_vectors, w \in wirings}

\* Every wiring of up to as many links as nodes, all nodes of class "A" (whose
\* input "b" is lazy), and every assignment of class types with up to one link.
Prompts ==
    PromptsOf({[n \in NodeIds |-> ClassA]}, WiringUpTo(Cardinality(NodeIds)))
        \cup PromptsOf([NodeIds -> Classes], WiringUpTo(1))

Call(op, arg, ret, err) ==
    [op |-> op, arg |-> arg, input |-> "", from_node_id |-> None, from_socket |-> 0,
     include_lazy |-> FALSE, subgraph_nodes |-> NoSubgraph,
     ret |-> ret, err |-> err, node_id |-> None, unstaged |-> None]

InitScheduler ==
    /\ ephemeral_prompt = EmptyFn
    /\ ephemeral_parents = EmptyFn
    /\ ephemeral_display = EmptyFn
    /\ pendingNodes = <<>>
    /\ blockCount = EmptyFn
    /\ blocking = EmptyFn
    /\ staged_node_id = None
    /\ current_group_class = NoGroup
    /\ last = Call("init", None, None, "")
    /\ completed = {}
    /\ targets = {}
    /\ made_strong = {}
    /\ undisturbed = TRUE
    /\ link_calls = 0

Init ==
    /\ original_prompt \in Prompts
    /\ output_cache = {}
    /\ InitScheduler

\* -------------------------------------------------------------- actions
Store(S) ==
    /\ pendingNodes' = S.p
    /\ blockCount' = S.bc
    /\ blocking' = S.bl
    /\ undisturbed' = (undisturbed /\ S.p = pendingNodes /\ S.bc = blockCount
                                   /\ S.bl = blocking)

\* The driver (the execution loop that owns the ExecutionList) forces a lazy
\* input or links a new producer only for the node it has staged, and then
\* unstages that node: it completes a node only while the node is still ready.
DriverMayLink(to_node_id) == to_node_id # None /\ to_node_id = staged_node_id

DriverMayComplete == staged_node_id # None => blockCount[staged_node_id] = 0

\* The driver adds its targets before it stages the first node.
DriverMayAdd(node_unique_id) ==
    /\ last.op \in {"init", "add_ephemeral_node", "add_node"}
    /\ Cardinality(targets \cup {node_unique_id}) <= MaxTargets

SubgraphArgs == {NoSubgraph, Subgraph(NodeIds \ {1})}

\* The lazy links add_node makes strong when it is called with include_lazy.
lazy_links_of(new_nodes, subgraph_nodes) ==
    {<<c, i>> \in new_nodes \X {"a", "b"} :
        /\ has_input(c, i)
        /\ is_link(input_value(c, i))
        /\ is_lazy(c, i)
        /\ ~(subgraph_nodes.given /\ input_value(c, i).node \notin subgraph_nodes.nodes)}

AddNodeCall(node_unique_id, include_lazy, subgraph_nodes) ==
    LET S == add_node(Sched, node_unique_id, include_lazy, subgraph_nodes)
    IN  /\ Store(S)
        /\ last' = [Call("add_node", node_unique_id, None, S.err) EXCEPT
                      !.include_lazy = include_lazy, !.subgraph_nodes = subgraph_nodes]
        /\ targets' = targets \cup {node_unique_id}
        /\ made_strong' = IF include_lazy
                          THEN made_strong \cup
                               lazy_links_of(Range(S.p) \ Range(pendingNodes), subgraph_nodes)
                          ELSE made_strong
        /\ UNCHANGED <<graphVars, link_calls, staged_node_id, current_group_class,
                       completed>>

AddNode ==
    \E t \in NodeIds, il \in BOOLEAN, sub \in SubgraphArgs :
        /\ DriverMayAdd(t)
        /\ AddNodeCall(t, il, sub)

MakeInputStrongLink ==
    \E n \in NodeIds, input \in {"a", "b"} :
        /\ DriverMayLink(n)
        /\ LET S == make_input_strong_link(Sched, n, input)
           IN  /\ Store(S)
               /\ last' = [Call("make_input_strong_link", n, None, S.err) EXCEPT
                             !.input = input,
                             !.from_node_id = IF S.err = "NodeInputError" THEN None
                                              ELSE input_value(n, input).node,
                             !.from_socket = IF S.err = "NodeInputError" THEN 0
                                             ELSE input_value(n, input).socket]
               /\ made_strong' = IF S.err = "" THEN made_strong \cup {<<n, input>>}
                                 ELSE made_strong
        /\ UNCHANGED <<graphVars, link_calls, staged_node_id, current_group_class,
                       completed, targets>>

AddStrongLink ==
    \E f \in NodeIds, s \in Sockets, t \in NodeIds :
        /\ DriverMayLink(t)
        /\ link_calls < MaxLinks
        /\ link_calls' = link_calls + 1
        /\ LET S == add_strong_link(Sched, f, s, t)
           IN  /\ Store(S)
               /\ last' = [Call("add_strong_link", t, None, S.err) EXCEPT
                             !.from_node_id = f, !.from_socket = s]
        /\ UNCHANGED <<graphVars, staged_node_id, current_group_class, completed, targets,
                       made_strong>>

\* stage_node_execution, by its four exits.
StageFault_NoAssert ==
    /\ staged_node_id # None
    /\ last' = Call("stage_node_execution", None, staged_node_id, "")
    /\ UNCHANGED <<graphVars, link_calls, dictVars, staged_node_id, current_group_class,
                   completed, targets, made_strong, undisturbed>>

StageFault ==
    /\ staged_node_id # None
    /\ last' = Call("stage_node_execution", None, None, "AssertionError")
    /\ UNCHANGED <<graphVars, link_calls, dictVars, staged_node_id, current_group_class,
                   completed, targets, made_strong, undisturbed>>

StageEmpty ==
    /\ staged_node_id = None
    /\ is_empty(Sched)
    /\ last' = Call("stage_node_execution", None, None, "")
    /\ UNCHANGED <<graphVars, link_calls, dictVars, staged_node_id, current_group_class,
                   completed, targets, made_strong, undisturbed>>

StageCycle ==
    /\ staged_node_id = None
    /\ ~is_empty(Sched)
    /\ get_ready_nodes(Sched) = <<>>
    /\ LET cycled_nodes == get_nodes_in_cycle(Sched)
       IN  last' = IF cycle_key_error(Sched)
                   THEN Call("stage_node_execution", None, None, "KeyError")
                   ELSE IF cycled_nodes = <<>>
                   THEN Call("stage_node_execution", None, None, "IndexError")
                   ELSE [Call("stage_node_execution", None, None, "DependencyCycleError")
                            EXCEPT !.node_id = blamed_node(cycled_nodes)]
    /\ UNCHANGED <<graphVars, link_calls, dictVars, staged_node_id, current_group_class,
                   completed, targets, made_strong, undisturbed>>

StagePick ==
    /\ staged_node_id = None
    /\ ~is_empty(Sched)
    /\ get_ready_nodes(Sched) # <<>>
    /\ LET pick == ux_friendly_pick_node(Sched, current_group_class, get_ready_nodes(Sched))
       IN  /\ staged_node_id' = pick.node
           /\ current_group_class' = pick.group
           /\ last' = [Call("stage_node_execution", None, pick.node, "") EXCEPT
                         !.unstaged = IF last.op = "unstage_node_execution"
                                      THEN last.arg ELSE None]
    /\ undisturbed' = TRUE
    /\ UNCHANGED <<graphVars, link_calls, dictVars, completed, targets, made_strong>>

Stage == StageFault \/ StageEmpty \/ StageCycle \/ StagePick

Unstage_ClearsGroup ==
    /\ staged_node_id' = None
    /\ current_group_class' = NoGroup
    /\ last' = Call("unstage_node_execution", staged_node_id, None, "")
    /\ UNCHANGED <<graphVars, link_calls, dictVars, completed, targets, made_strong,
                   undisturbed>>

Unstage ==
    /\ staged_node_id' = None
    /\ last' = Call("unstage_node_execution", staged_node_id, None, "")
    /\ UNCHANGED <<graphVars, link_calls, dictVars, current_group_class, completed, targets,
                   made_strong, undisturbed>>

\* complete_node_execution, by its two exits.
CompleteFault ==
    /\ staged_node_id = None
    /\ last' = Call("complete_node_execution", None, None, "AssertionError")
    /\ UNCHANGED <<graphVars, link_calls, dictVars, staged_node_id, current_group_class,
                   completed, targets, made_strong, undisturbed>>

CompletePop ==
    /\ staged_node_id # None
    /\ DriverMayComplete
    /\ LET S == pop_node(Sched, staged_node_id)
       IN  /\ Store(S)
           /\ staged_node_id' = IF S.err = "" THEN None ELSE staged_node_id
           /\ completed' = IF S.err = "" THEN completed \cup {staged_node_id} ELSE completed
           /\ made_strong' = {l \in made_strong :
                                 /\ l[1] # staged_node_id
                                 /\ input_value(l[1], l[2]).node # staged_node_id}
           /\ last' = Call("complete_node_execution", staged_node_id, None, S.err)
    /\ UNCHANGED <<graphVars, link_calls, current_group_class, targets>>

Complete == CompleteFault \/ CompletePop

Next ==
    \/ AddNode
    \/ MakeInputStrongLink
    \/ Stage
    \/ Unstage
    \/ Complete

Spec == Init /\ [][Next]_vars

\* The driver also links the node it has staged to producers of its choice
\* (the outputs of an expansion), on prompts of at most one link.
LinkInit ==
    /\ original_prompt \in PromptsOf({[n \in NodeIds |-> ClassA]}, WiringUpTo(1))
    /\ output_cache = {}
    /\ InitScheduler

LinkNext ==
    \/ \E t \in NodeIds : DriverMayAdd(t) /\ AddNodeCall(t, FALSE, NoSubgraph)
    \/ AddStrongLink
    \/ StagePick
    \/ Unstage
    \/ CompletePop

LinkSpec == LinkInit /\ [][LinkNext]_vars

\* The plain run: the driver adds its targets, then stages and completes node
\* after node, forcing no lazy input.  The prompts have nodes of class "A" or
\* "AB" (whose input "b" is not lazy) wired with up to as many links as nodes,
\* or nodes of any class with up to one link.
RunInit ==
    /\ original_prompt \in
           PromptsOf([NodeIds -> {ClassA, ClassAB}], WiringUpTo(Cardinality(NodeIds)))
               \cup PromptsOf([NodeIds -> Classes], WiringUpTo(1))
    /\ output_cache = {}
    /\ InitScheduler

AddTarget ==
    \E t \in NodeIds \ targets :
        /\ last.op \in {"init", "add_node"}
        /\ AddNodeCall(t, FALSE, NoSubgraph)

\* The loop of the driver: stage a node, complete it.
RunLoop ==
    \/ StageEmpty
    \/ StageCycle
    \/ StagePick
    \/ CompletePop

RunNext == AddTarget \/ RunLoop

\* The loop does not stop while a call of it would change the state.
RunSpec == RunInit /\ [][RunNext]_vars /\ WF_vars(RunLoop)

\* An expansion creates nodes with fresh ids, in order, each with a parent and
\* a display node that exist already, before the driver adds its targets.
DriverMayExpand(node_id, parent_id, display_id) ==
    /\ last.op \in {"init", "add_ephemeral_node"}
    /\ ~has_node(node_id)
    /\ \A e \in EphemeralIds : e < node_id => has_node(e)
    /\ has_node(parent_id)
    /\ has_node(display_id)

\* DynamicPrompt.add_ephemeral_node.
AddEphemeralNode ==
    \E node_id \in EphemeralIds, a \in {None, 1}, parent_id, display_id \in NodeIds \cup EphemeralIds :
        /\ DriverMayExpand(node_id, parent_id, display_id)
        /\ ephemeral_prompt' = Put(ephemeral_prompt, node_id, node_record(ClassA, a, None))
        /\ ephemeral_parents' = Put(ephemeral_parents, node_id, parent_id)
        /\ ephemeral_display' = Put(ephemeral_display, node_id, display_id)
        /\ last' = Call("add_ephemeral_node", node_id, None, "")
        /\ UNCHANGED <<original_prompt, output_cache, dictVars, staged_node_id,
                       current_group_class, completed, targets, made_strong, undisturbed,
                       link_calls>>

\* The run on a prompt that expansions have extended: nodes of class "A", the
\* first two wired through input "a" in every way (not at all, one feeding the
\* other, or in a cycle), then the ephemeral nodes.
EphemeralInit ==
    /\ original_prompt \in
           PromptsOf({[n \in NodeIds |-> ClassA]},
                     {w \in WiringUpTo(2) :
                         \A n \in NodeIds : w.b[n] = None /\ w.a[n] # 3 /\ w.a[3] = None})
    /\ output_cache = {}
    /\ InitScheduler

AddAnyTarget ==
    \E t \in NodeIds \cup EphemeralIds :
        /\ has_node(t)
        /\ t \notin targets
        /\ DriverMayAdd(t)
        /\ AddNodeCall(t, FALSE, NoSubgraph)

EphemeralNext == AddEphemeralNode \/ AddAnyTarget \/ RunLoop

EphemeralSpec == EphemeralInit /\ [][EphemeralNext]_vars

\* Prompts without lazy inputs (every node of class "AB"), on which the driver
\* calls add_node for a target at any time between the calls of its loop.
AddInit ==
    /\ original_prompt \in
           PromptsOf({[n \in NodeIds |-> ClassAB]}, WiringUpTo(Cardinality(NodeIds)))
    /\ output_cache = {}
    /\ InitScheduler

AddNodeAnytime ==
    \E t \in NodeIds, sub \in SubgraphArgs :
        /\ Cardinality(targets \cup {t}) <= MaxTargets
        /\ staged_node_id = None
        /\ AddNodeCall(t, FALSE, sub)

AddNext == AddNodeAnytime \/ RunLoop

AddSpec == AddInit /\ [][AddNext]_vars

\* Prompts of four nodes of the classes "A" and "B" (an output class), wired
\* through input "a" in every way: enough for two ready nodes of one class
\* next to a chain of two links that ends in an output node.
TierIds == NodeIds \cup {4}

TierInit ==
    /\ original_prompt \in
           {[n \in TierIds |-> node_record(ct[n], w[n], None)] :
               ct \in [TierIds -> {ClassA, ClassB}],
               w \in {w \in [TierIds -> TierIds \cup {None}] : \A n \in TierIds : w[n] # n}}
    /\ output_cache = {}
    /\ InitScheduler

TierAddTarget ==
    \E t \in TierIds \ targets :
        /\ last.op \in {"init", "add_node"}
        /\ Cardinality(targets) < MaxTargets
        /\ AddNodeCall(t, FALSE, NoSubgraph)

TierNext == TierAddTarget \/ RunLoop

TierSpec == TierInit /\ [][TierNext]_vars

\* The same scheduler constructed with an output cache that holds results.
CacheInit ==
    /\ original_prompt \in PromptsOf({[n \in NodeIds |-> ClassA]}, WiringUpTo(2))
    /\ output_cache \in {{n} : n \in NodeIds}
    /\ InitScheduler

CacheSpec == CacheInit /\ [][Next]_vars

\* ================================================================ claims
Pending == Range(pendingNodes)

Ready == Range(get_ready_nodes(Sched))

\* The pending producers that block n.
blockers(n) == {m \in Pending \cap DOMAIN blocking : n \in DOMAIN blocking[m]}

\* The producers the non-lazy links of n lead to.
producers(n) ==
    {input_value(n, i).node :
        i \in {i \in {"a", "b"} : /\ has_input(n, i)
                                  /\ is_link(input_value(n, i))
                                  /\ ~is_lazy(n, i)}}

\* The nodes reachable backward from the nodes of from through non-lazy links.
RECURSIVE needed(_)
needed(from) ==
    LET more == from \cup UNION {producers(n) : n \in from}
    IN  IF more = from THEN from ELSE needed(more)

\* No cycle of non-lazy links in the prompt.
Acyclic == \A n \in NodeIds : n \notin needed(producers(n))

\* stage_node_execution has returned no node and no error, nothing is pending.
Drained ==
    /\ last.op = "stage_node_execution"
    /\ last.ret = None
    /\ last.err = ""
    /\ pendingNodes = <<>>
    /\ staged_node_id = None

\* C1: on a prompt without a cycle of scheduling dependencies (lazy inputs are
\* not forced, nothing is cached), the run of stage and complete calls that
\* follows the add_node calls eventually leaves nothing pending, stage then
\* returning no node and no error; the nodes completed by then are exactly the
\* nodes reachable backward from the targets; no node is staged or completed a
\* second time; and no stage call returns a DependencyCycleError.
C1_AcyclicRunDrains ==
    /\ Acyclic ~> Drained
    /\ [](Acyclic /\ Drained => completed = needed(targets))
    /\ [](Acyclic => last.err # "DependencyCycleError")
    /\ [][/\ ((last'.op = "stage_node_execution" /\ last'.ret # None)
                 => last'.ret \notin completed)
           /\ (last'.op = "complete_node_execution"
                 => /\ last'.err = ""
                    /\ last'.arg \notin completed
                    /\ completed' = completed \cup {last'.arg})]_vars

C1_Witness ==
    /\ Acyclic
    /\ Drained
    /\ Cardinality(targets) = 1
    /\ completed = NodeIds
    /\ \E n \in NodeIds : Cardinality(producers(n)) = 2

\* The pending nodes that m blocks through a true socket.
blocked_nodes(m) ==
    {n \in Pending : m \in Pending /\ n \in DOMAIN blocking[m] /\ blocking[m][n] # {}}

\* The nodes that depend, directly or transitively, on a node of from.
RECURSIVE dependents(_)
dependents(from) ==
    LET more == from \cup UNION {blocked_nodes(m) : m \in from}
    IN  IF more = from THEN from ELSE dependents(more)

\* n lies on a dependency cycle: n depends on itself.
OnCycle(n) == n \in Pending /\ n \in dependents(blocked_nodes(n))

\* C2: the node a DependencyCycleError blames lies on a dependency cycle
\* itself; it is not a node that merely depends on a cycle.
C2_BlamedOnCycle ==
    (last.op = "stage_node_execution" /\ last.err = "DependencyCycleError")
        => OnCycle(last.node_id)

\* C3: the slot holds at most one node; stage_node_execution called while a
\* node is staged, and complete_node_execution called while none is, fault,
\* and a faulting call leaves the slot and the three dicts as they were.
C3_StagingExclusive ==
    [][/\ staged_node_id' \in NodeIds \cup {None}
       /\ (last'.op = "stage_node_execution" /\ staged_node_id # None
             => /\ last'.err = "AssertionError"
                /\ UNCHANGED <<staged_node_id, dictVars>>)
       /\ (last'.op = "complete_node_execution" /\ staged_node_id = None
             => /\ last'.err = "AssertionError"
                /\ UNCHANGED <<staged_node_id, dictVars>>)]_vars

C3_Witness ==
    /\ last.op = "stage_node_execution"
    /\ last.err = "AssertionError"
    /\ staged_node_id # None
    /\ Len(pendingNodes) >= 2

\* C4: a stage call that directly follows the unstaging of node n, with the
\* dicts as they were when n was staged, returns n again and keeps the group;
\* stage and unstage calls leave the three dicts unchanged, and an unstage call
\* changes nothing but the slot.
C4_UnstagePreserves ==
    [][/\ (last'.op = "unstage_node_execution"
             => /\ staged_node_id' = None
                /\ UNCHANGED <<dictVars, current_group_class, graphVars>>)
       /\ (last'.op = "stage_node_execution" => UNCHANGED dictVars)
       /\ ((/\ last.op = "unstage_node_execution"
            /\ last.arg # None
            /\ undisturbed
            /\ last'.op = "stage_node_execution")
             => /\ last'.ret = last.arg
                /\ staged_node_id' = last.arg
                /\ current_group_class' = current_group_class)]_vars

C4_Witness ==
    /\ last.op = "stage_node_execution"
    /\ last.unstaged # None
    /\ last.ret = last.unstaged
    /\ undisturbed
    /\ Len(get_ready_nodes(Sched)) >= 2
    /\ \E n \in Ready : class_of(n) # current_group_class

\* The inputs of c that hold a link and are scheduling dependencies: the
\* non-lazy ones and the ones made strong.
strong_inputs(c) ==
    {i \in {"a", "b"} :
        /\ has_input(c, i)
        /\ is_link(input_value(c, i))
        /\ (~is_lazy(c, i) \/ <<c, i>> \in made_strong)}

\* A lazy link blocks nobody: whoever blocks a pending node c feeds one of its
\* strong inputs, so c is ready once the producers of its strong inputs are
\* no longer pending.
LazyLinksDoNotBlock ==
    \A c \in Pending :
        /\ \A p \in blockers(c) : \E i \in strong_inputs(c) : input_value(c, i).node = p
        /\ ((\A i \in strong_inputs(c) : input_value(c, i).node \notin Pending)
              => c \in Ready)

\* A link made strong holds its pending consumer back while its producer has
\* not been completed.
StrongLinksBlock ==
    \A l \in made_strong :
        LET producer == input_value(l[1], l[2]).node
        IN  l[1] \in Pending
              => /\ producer \in Pending
                 /\ l[1] \in DOMAIN blocking[producer]
                 /\ blockCount[l[1]] >= 1
                 /\ l[1] \notin Ready

\* C5: a link into a lazy input is no scheduling dependency after add_node
\* without include_lazy; a successful make_input_strong_link(consumer, input)
\* leaves the producer pending and the consumer not ready, and the consumer
\* becomes ready again only by the completion of that producer.
C5_LazyDeferral ==
    /\ []LazyLinksDoNotBlock
    /\ []StrongLinksBlock
    /\ [][/\ ((last'.op = "make_input_strong_link" /\ last'.err = "")
                 => /\ last'.from_node_id \in Pending'
                    /\ last'.arg \notin Ready')
           /\ \A l \in made_strong :
                 (l[1] \in Pending /\ l[1] \in Ready')
                    => /\ last'.op = "complete_node_execution"
                       /\ last'.arg = input_value(l[1], l[2]).node]_vars

C5_Witness ==
    /\ last.op = "make_input_strong_link"
    /\ last.err = ""
    /\ is_lazy(last.arg, last.input)
    /\ last.arg = staged_node_id
    /\ last.from_node_id \notin completed
    /\ last.from_node_id \in Pending
    /\ blockCount[last.arg] = 1
    /\ completed # {}

\* C6: a successful add_strong_link(producer, socket, consumer) raises
\* blockCount[consumer] by one when the consumer is not yet in
\* blocking[producer] and leaves it unchanged otherwise, whatever the socket;
\* it sets the socket and changes no other count of a pending node; the same
\* call made twice in a row changes nothing the second time.
C6_CountedOnce ==
    [][(last'.op = "add_strong_link" /\ last'.err = "")
         => LET from_node_id == last'.from_node_id
                to_node_id == last'.arg
                first == ~(from_node_id \in Pending /\ to_node_id \in DOMAIN blocking[from_node_id])
            IN  /\ blockCount'[to_node_id] = blockCount[to_node_id] + (IF first THEN 1 ELSE 0)
                /\ last'.from_socket \in blocking'[from_node_id][to_node_id]
                /\ \A n \in Pending \ {to_node_id} : blockCount'[n] = blockCount[n]
                /\ ((/\ last.op = last'.op
                     /\ last.err = ""
                     /\ last.arg = to_node_id
                     /\ last.from_node_id = from_node_id
                     /\ last.from_socket = last'.from_socket)
                      => UNCHANGED dictVars)]_vars

C6_Witness ==
    /\ last.op = "add_strong_link"
    /\ last.err = ""
    /\ blocking[last.from_node_id][last.arg] = {0, 1}
    /\ blockCount[last.arg] = 1

\* C7: for every pending node n, blockCount[n] is a natural number, it is the
\* number of distinct pending producers m with n in blocking[m], and it is 0
\* exactly when no pending m holds a true socket in blocking[m][n].
C7_BlockCount ==
    \A n \in Pending :
        /\ n \in DOMAIN blockCount
        /\ blockCount[n] \in Nat
        /\ blockCount[n] = Cardinality(blockers(n))
        /\ (blockCount[n] = 0 <=> ~\E m \in blockers(n) : blocking[m][n] # {})

C7_Witness ==
    /\ completed # {}
    /\ \E n \in Pending : blockCount[n] = 0
    /\ \E n \in Pending : blockCount[n] = 1 /\ \E m \in blockers(n) : blocking[m][n] = {0, 1}

\* C8: a node whose result the output cache holds is never made pending as a
\* producer (it is pending only if add_node was called for it) and never
\* blocks a consumer.
C8_CachedNeverPending ==
    \A n \in output_cache :
        /\ n \in Pending => n \in targets
        /\ n \in DOMAIN blocking => blocking[n] = EmptyFn

\* The number of ready nodes of class type c.
ready_count(c) == Cardinality({n \in Ready : class_of(n) = c})

\* The class types with the most ready nodes.
largest_groups ==
    {c \in Classes : ready_count(c) > 0 /\ \A d \in Classes : ready_count(d) <= ready_count(c)}

\* A stage call is about to select the group anew: no group is tracked, or no
\* ready node belongs to the tracked one.
Reselects ==
    /\ staged_node_id = None
    /\ Ready # {}
    /\ (current_group_class = NoGroup \/ ready_count(current_group_class) = 0)

\* C9: when a stage call selects the group anew, the new group is a class type
\* with the most ready nodes, and the node staged is of that class.
C9_LargestGroup ==
    [][(Reselects /\ last'.op = "stage_node_execution")
         => /\ current_group_class' \in largest_groups
            /\ staged_node_id' \in Ready
            /\ class_of(staged_node_id') = current_group_class']_vars

C9_Witness ==
    /\ last.op = "stage_node_execution"
    /\ last.ret # None
    /\ completed = {}
    /\ ready_count(current_group_class) = 2
    /\ \E c \in Classes : ready_count(c) = 1
    /\ class_of(pendingNodes[1]) # current_group_class

\* C10 as stated: when class types tie for the most ready nodes, the group
\* selected anew is the one with the lexicographically smallest name.
C10_TieSmallestName ==
    [][(Reselects /\ last'.op = "stage_node_execution")
         => \A d \in largest_groups \ {current_group_class'} :
                StrLess(current_group_class', d)]_vars

\* C10 amended: when class types tie for the most ready nodes, the group
\* selected anew is the one with the lexicographically largest name, and the
\* node staged is of that class.
C10_TieLargestName ==
    [][(Reselects /\ last'.op = "stage_node_execution")
         => /\ current_group_class' \in largest_groups
            /\ \A d \in largest_groups \ {current_group_class'} :
                   StrLess(d, current_group_class')
            /\ class_of(staged_node_id') = current_group_class']_vars

C10_Witness ==
    /\ last.op = "stage_node_execution"
    /\ last.ret # None
    /\ completed = {}
    /\ current_group_class = ClassAB
    /\ ready_count(ClassA) = ready_count(ClassAB)
    /\ class_of(pendingNodes[1]) = ClassA

\* C11: when a ready node of the group a stage call leaves current is of an
\* output class, the node staged is an output-class node of that group,
\* wherever it stands in the pending order.
C11_OutputFirst ==
    [][(/\ last'.op = "stage_node_execution"
        /\ last'.ret # None
        /\ \E n \in Ready : class_of(n) = current_group_class' /\ is_output(n))
         => /\ is_output(staged_node_id')
            /\ staged_node_id' \in Ready
            /\ class_of(staged_node_id') = current_group_class']_vars

C11_Witness ==
    /\ last.op = "stage_node_execution"
    /\ last.ret # None
    /\ is_output(staged_node_id)
    /\ pendingNodes[1] \in Ready
    /\ ~is_output(pendingNodes[1])
    /\ ready_count(current_group_class) = 2

\* The node that k steps along map lead to from node_id.
RECURSIVE steps(_, _, _)
steps(map, node_id, k) ==
    IF k = 0 \/ node_id \notin DOMAIN map THEN node_id
    ELSE steps(map, map[node_id], k - 1)

\* C13: get_real_node_id(n) is the end of the chain of parents of n, a node
\* that has no parent, and get_display_node_id(n) the end of its chain of
\* display nodes; neither depends on the other mapping.
C13_AncestryFixpoint ==
    \A n \in all_node_ids :
        /\ get_real_node_id(n) = steps(ephemeral_parents, n, Cardinality(EphemeralIds))
        /\ get_real_node_id(n) \notin DOMAIN ephemeral_parents
        /\ get_display_node_id(n) = steps(ephemeral_display, n, Cardinality(EphemeralIds))
        /\ get_display_node_id(n) \notin DOMAIN ephemeral_display

C13_Witness ==
    \E e1, e2 \in DOMAIN ephemeral_parents :
        /\ ephemeral_parents[e2] = e1
        /\ ephemeral_parents[e1] \in NodeIds
        /\ get_real_node_id(e2) = ephemeral_parents[e1]
        /\ ephemeral_display[e2] = e1
        /\ get_display_node_id(e2) \in NodeIds \ {get_real_node_id(e2)}

\* The positions of the nodes cycle isolation returns whose display id is not
\* their own id.
displayed_elsewhere ==
    {i \in DOMAIN get_nodes_in_cycle(Sched) :
        get_display_node_id(get_nodes_in_cycle(Sched)[i]) # get_nodes_in_cycle(Sched)[i]}

\* C12: a stage call made with no node staged, the pending set non-empty and
\* no node ready returns no node and a DependencyCycleError; its node_id is
\* the display id of the first node cycle isolation returns whose display id
\* is not its own id, or the first node returned when there is none; the slot
\* and the three dicts stay as they were.
C12_CycleError ==
    [][(/\ last'.op = "stage_node_execution"
        /\ staged_node_id = None
        /\ Pending # {}
        /\ Ready = {})
         => /\ last'.ret = None
            /\ last'.err = "DependencyCycleError"
            /\ last'.node_id =
                  IF displayed_elsewhere = {} THEN get_nodes_in_cycle(Sched)[1]
                  ELSE get_display_node_id(
                          get_nodes_in_cycle(Sched)[
                              CHOOSE i \in displayed_elsewhere :
                                  \A j \in displayed_elsewhere : i <= j])
            /\ UNCHANGED <<staged_node_id, dictVars>>]_vars

C12_Witness ==
    /\ last.op = "stage_node_execution"
    /\ last.err = "DependencyCycleError"
    /\ 1 \notin displayed_elsewhere
    /\ displayed_elsewhere # {}
    /\ last.node_id \notin Pending

\* C14: when the pending set is non-empty and no node is ready, the nodes
\* get_nodes_in_cycle returns are exactly the pending nodes that lie on a
\* dependency cycle.
C14_ExactlyCycleNodes ==
    (Pending # {} /\ Ready = {})
        => Range(get_nodes_in_cycle(Sched)) = {n \in Pending : OnCycle(n)}

\* C15: the staged node is a pending node; stage and unstage calls leave the
\* pending set as it is; a complete call made while a node is staged does not
\* fault, removes exactly the staged node from the pending set, lowers the
\* blockCount of each node in its blocking entry by exactly one and no other
\* count, and clears the slot.
C15_PendingOnlyShrinks ==
    /\ [](staged_node_id # None => staged_node_id \in Pending)
    /\ [][/\ (last'.op \in {"stage_node_execution", "unstage_node_execution"}
                 => pendingNodes' = pendingNodes)
           /\ ((last'.op = "complete_node_execution" /\ staged_node_id # None)
                 => /\ last'.err = ""
                    /\ pendingNodes' = Without(pendingNodes, staged_node_id)
                    /\ Pending' = Pending \ {staged_node_id}
                    /\ \A n \in DOMAIN blockCount :
                          blockCount'[n] =
                              IF n \in DOMAIN blocking[staged_node_id]
                              THEN blockCount[n] - 1 ELSE blockCount[n]
                    /\ staged_node_id' = None)]_vars

C15_Witness ==
    /\ last.op = "complete_node_execution"
    /\ last.err = ""
    /\ staged_node_id = None
    /\ last.arg \notin Pending
    /\ \E n \in Ready : has_input(n, "a") /\ input_value(n, "a") = Link(last.arg, 0)
    /\ \E n \in Pending : blockCount[n] = 1

\* C16: make_input_strong_link(consumer, input) raises NodeInputError when
\* the consumer has no such input or the input holds a constant, and then the
\* three dicts and the slot stay as they were; otherwise it leaves the three
\* dicts as add_strong_link(producer, socket, consumer) does for the link the
\* input holds.
C16_StrongLinkOfInput ==
    [][last'.op = "make_input_strong_link"
         => LET consumer == last'.arg
                input == last'.input
            IN  IF ~has_input(consumer, input) \/ ~is_link(input_value(consumer, input))
                THEN /\ last'.err = "NodeInputError"
                     /\ UNCHANGED <<dictVars, staged_node_id>>
                ELSE LET link == input_value(consumer, input)
                         S == add_strong_link(Sched, link.node, link.socket, consumer)
                     IN  /\ last'.err = S.err
                         /\ last'.err # "NodeInputError"
                         /\ pendingNodes' = S.p
                         /\ blockCount' = S.bc
                         /\ blocking' = S.bl
                         /\ UNCHANGED staged_node_id]_vars

C16_Witness ==
    /\ last.op = "make_input_strong_link"
    /\ last.err = "NodeInputError"
    /\ has_input(last.arg, last.input)
    /\ ~has_input(last.arg, "a")
    /\ completed # {}
    /\ Len(pendingNodes) >= 2

\* The producers linked into the inputs of n, those outside a given
\* subgraph_nodes left out.
linked_producers(n, subgraph_nodes) ==
    {input_value(n, i).node :
        i \in {i \in {"a", "b"} :
                  /\ has_input(n, i)
                  /\ is_link(input_value(n, i))
                  /\ ~(subgraph_nodes.given
                         /\ input_value(n, i).node \notin subgraph_nodes.nodes)}}

\* The nodes a walk from the nodes of from reaches backward through such
\* links without going beyond a node that is pending already.
RECURSIVE walked(_, _)
walked(from, subgraph_nodes) ==
    LET new == from \ Pending
        more == new \cup UNION {linked_producers(n, subgraph_nodes) \ Pending : n \in new}
    IN  IF more = new THEN new ELSE walked(more, subgraph_nodes)

\* C17 as stated: after add_node(target) without subgraph_nodes, nothing
\* cached and nothing completed, the pending
\* set is the previous one plus every node reachable backward from the target,
\* and the blockCount of each node added is the number of its distinct
\* producers.
C17_AddsAllReachable ==
    [][(last'.op = "add_node" /\ ~last'.subgraph_nodes.given /\ completed = {})
         => /\ Pending' = Pending \cup needed({last'.arg})
            /\ \A n \in Pending' \ Pending :
                  blockCount'[n] = Cardinality(linked_producers(n, NoSubgraph))]_vars

\* C17 amended: after add_node(target) the pending set is the previous one,
\* in its order, plus every node reachable backward from the target through
\* input links without passing through a node that was pending already; the
\* blockCount of each node added is the number of its distinct producers, the
\* counts of the others are unchanged, and every producer of a node added
\* blocks it; with subgraph_nodes given, the links whose producer is outside
\* subgraph_nodes are left out of the walk, the counts and the edges.
C17_AddsWalkedNodes ==
    [][last'.op = "add_node"
         => LET sub == last'.subgraph_nodes
                added == walked({last'.arg}, sub)
            IN  /\ last'.err = ""
                /\ Pending' = Pending \cup added
                /\ SubSeq(pendingNodes', 1, Len(pendingNodes)) = pendingNodes
                /\ \A n \in added :
                      /\ blockCount'[n] = Cardinality(linked_producers(n, sub))
                      /\ \A p \in Pending' :
                            n \in DOMAIN blocking'[p] <=> p \in linked_producers(n, sub)
                /\ \A n \in Pending : blockCount'[n] = blockCount[n]]_vars

C17_Witness ==
    /\ last.op = "add_node"
    /\ last.subgraph_nodes.given
    /\ Len(pendingNodes) = 2
    /\ completed = {}
    /\ Cardinality(targets) = 2
    /\ \E n \in Pending :
          /\ Cardinality(linked_producers(n, NoSubgraph)) = 2
          /\ blockCount[n] = 1

\* C18: the current group changes only in a stage call made when no ready node
\* belongs to it; a stage call made while a ready node has the class type of
\* the current group leaves the group unchanged and stages a node of that
\* class; and the node a stage call stages is always a ready node whose class
\* type is the current group after the call.
C18_GroupSticky ==
    /\ [][current_group_class' # current_group_class
            => /\ last'.op = "stage_node_execution"
               /\ last'.ret # None
               /\ ready_count(current_group_class) = 0]_vars
    /\ [][(last'.op = "stage_node_execution" /\ last'.ret # None)
            => /\ staged_node_id' = last'.ret
               /\ staged_node_id' \in Ready
               /\ class_of(staged_node_id') = current_group_class'
               /\ ready_count(current_group_class) > 0
                     => current_group_class' = current_group_class]_vars

C18_Witness ==
    /\ last.op = "stage_node_execution"
    /\ last.ret # None
    /\ completed # {}
    /\ current_group_class = ClassA
    /\ class_of(staged_node_id) = ClassA
    /\ \E c \in Classes \ {ClassA} : ready_count(c) >= ready_count(ClassA)

\* The place of a pending node in the insertion order of the pending set.
place(n) == CHOOSE i \in DOMAIN pendingNodes : pendingNodes[i] = n

\* The ready nodes of class c, those of them that block an output-class node,
\* and those that block a node that blocks an output-class node.
candidates_of(c) == {n \in Ready : class_of(n) = c}

direct_tier(c) ==
    {n \in candidates_of(c) : \E m \in DOMAIN blocking[n] : is_output(m)}

second_tier(c) ==
    {n \in candidates_of(c) :
        \E m \in DOMAIN blocking[n] : \E k \in DOMAIN blocking[m] : is_output(k)}

\* C19: when no ready node of the group a stage call leaves current is of an
\* output class, the node staged is the first in insertion order of those that
\* directly block an output-class node if there are any, else the first of
\* those that block a node blocking an output-class node if there are any, else
\* the first ready node of the group.
C19_TierPriority ==
    [][(/\ last'.op = "stage_node_execution"
        /\ last'.ret # None
        /\ \A n \in candidates_of(current_group_class') : ~is_output(n))
         => LET c == current_group_class'
                tier == IF direct_tier(c) # {} THEN direct_tier(c)
                        ELSE IF second_tier(c) # {} THEN second_tier(c)
                        ELSE candidates_of(c)
            IN  /\ staged_node_id' \in tier
                /\ \A m \in tier : place(staged_node_id') <= place(m)]_vars

C19_Witness ==
    /\ last.op = "stage_node_execution"
    /\ last.ret # None
    /\ ~is_output(staged_node_id)
    /\ direct_tier(current_group_class) = {}
    /\ staged_node_id \in second_tier(current_group_class)
    /\ \E m \in candidates_of(current_group_class) :
          /\ place(m) < place(staged_node_id)
          /\ m \notin second_tier(current_group_class)

\* C20: a node that has been completed is never pending again; in particular a
\* make_input_strong_link call on a lazy input whose producer was completed
\* adds no node to the pending set and raises no blockCount, and no stage call
\* stages a completed node.
C20_CompletedStaysDone ==
    /\ [](completed \cap Pending = {})
    /\ [][(/\ last'.op = "make_input_strong_link"
            /\ has_input(last'.arg, last'.input)
            /\ is_link(input_value(last'.arg, last'.input))
            /\ input_value(last'.arg, last'.input).node \in completed)
             => /\ pendingNodes' = pendingNodes
                /\ blockCount' = blockCount]_vars
    /\ [][last'.op = "stage_node_execution" => last'.ret \notin completed]_vars

====
